---- MODULE Spec2Model ----
(***************************************************************************)
(* Model of watcher/watcher.py: the nginx access-log watcher that tails a  *)
(* JSON log, keeps a sliding window of recent requests and raises Slack    *)
(* alerts on pool failover and on a high upstream error rate.              *)
(*                                                                         *)
(* The log file is a sequence of chunks.  Every log line is written as two *)
(* chunks: a head (half = 1) and a tail that carries the newline           *)
(* (half = 2).  Offsets (last_position, file size) are counted in chunks,  *)
(* so a read can start or stop in the middle of a line.                    *)
(***************************************************************************)
EXTENDS Integers, Sequences, FiniteSets, TLC

VARIABLES
    SLACK_WEBHOOK_URL,      \* TRUE iff a webhook URL is configured (line 16)
    MAINTENANCE_MODE,       \* line 21
    WINDOW_SIZE,            \* line 18
    ERROR_RATE_THRESHOLD,   \* line 17, in percent
    last_pool,              \* line 24
    request_window,         \* line 25
    last_failover_alert,    \* line 26
    last_error_rate_alert,  \* line 27
    last_position,          \* line 156
    lines,                  \* the batch returned by f.readlines(), not yet iterated
    pc,                     \* position of tail_log_file: "skip", "open", "loop"
    file,                   \* content of LOG_FILE
    now,                    \* the clock read by time.time()
    written,                \* number of lines the proxy has started to write
    startMark,              \* history: newest line present when tailing began
    handed,                 \* history: complete lines passed to parse_log_line
    arrived,                \* history: every record appended to request_window
    trace,                  \* history: what the last loop iteration did
    dispatched              \* history: when the notifier was last called, per kind

config == <<SLACK_WEBHOOK_URL, MAINTENANCE_MODE, WINDOW_SIZE,
            ERROR_RATE_THRESHOLD>>
detect == <<last_pool, request_window, last_failover_alert, last_error_rate_alert>>
vars == <<SLACK_WEBHOOK_URL, MAINTENANCE_MODE, WINDOW_SIZE,
          ERROR_RATE_THRESHOLD, last_pool, request_window, last_failover_alert, last_error_rate_alert,
          last_position, lines, pc, file, now, written, startMark, handed,
          arrived, trace, dispatched>>

----------------------------------------------------------------------------
(* Bounds of the model *)

MaxPre == 1         \* lines already in the file when the watcher starts
MaxWrites == 3      \* lines written to the file of the tailing model, in all
MaxTicks == 3       \* seconds the clock advances after startup
MaxWindow == 2      \* the configured WINDOW_SIZE of the tailing and detection models
DetectWrites == 3   \* lines the proxy writes in the detection model
MaxBacklog == 1     \* unread lines the proxy runs ahead in the detection model
LiveWrites == 2     \* lines the proxy writes in the fair tailing model
RateWrites == 3     \* lines the proxy writes in the error-rate model
MaxPreErrors == 1   \* error records the error-rate model starts with
FieldWrites == 2    \* lines the proxy writes in the upstream-status model
ObjectWrites == 3   \* lines the proxy writes in the JSON-object model

(* Program constants *)

ALERT_COOLDOWN_SEC == 2
DefaultThreshold == 2   \* the default ERROR_RATE_THRESHOLD
EdgeThreshold == 10     \* a threshold that one error in ten requests just meets
MinRequests == 10
ErrorStatus == 500

None == "None"

\* time.time() counts seconds since the epoch and is taken not to run
\* backwards: at startup it is more than ALERT_COOLDOWN_SEC past the zero
\* both alert timestamps start with.  The cooldown is scaled to 2 seconds.
StartTime == ALERT_COOLDOWN_SEC + 1
MaxTime == StartTime + MaxTicks

----------------------------------------------------------------------------
(* Log lines *)

Digits(n) == [isdigit |-> TRUE, int |-> n]

\* int(s) raises ValueError.
Raises == -1

\* An entry str.isdigit() rejects: "-", "abc", the empty entry of "200,".
NotDigits == [isdigit |-> FALSE, int |-> Raises]

\* An entry str.isdigit() accepts and int() does not: a superscript digit.
Superscript == [isdigit |-> TRUE, int |-> Raises]

Request == "GET / HTTP/1.1"
HealthRequests == {"GET /healthz HTTP/1.1", "GET /nginx-health HTTP/1.1"}

\* A line body: json is "object" (a non-empty JSON object), "malformed"
\* (json.loads raises JSONDecodeError), "empty" (the object {}), "falsy"
\* (another falsy JSON value: [], 0, null) or "nondict" (a truthy value
\* without .get).
\* upstream_status is the comma-separated field, split into its entries.
Body(json, pool, request, upstream_status, status) ==
    [json |-> json, pool |-> pool, request |-> request,
     upstream_status |-> upstream_status, status |-> status, time |-> 0]

Ok(pool) == Body("object", pool, Request, <<Digits(200)>>, 200)
Err(pool) == Body("object", pool, Request, <<Digits(200), Digits(502)>>, 502)
Health(pool) == Body("object", pool, "GET /healthz HTTP/1.1", <<Digits(503)>>, 503)
Malformed == Body("malformed", "", "", <<>>, 0)
NonDict == Body("nondict", "", "", <<>>, 0)
EmptyObject == Body("empty", "", "", <<>>, 0)
\* An object with none of pool, request, upstream_status and status.
NoFields == Body("object", "", "", <<>>, 0)

Stamp(body, t) == [body EXCEPT !.time = t]

\* The two chunks of a line.
Chunks(line) == <<[line |-> line, half |-> 1], [line |-> line, half |-> 2]>>

RECURSIVE FileOf(_)
FileOf(ls) == IF ls = <<>> THEN <<>> ELSE Chunks(Head(ls)) \o FileOf(Tail(ls))

MidLine(f) == f /= <<>> /\ f[Len(f)].half = 1

----------------------------------------------------------------------------
(* f.readlines() and parse_log_line *)

RECURSIVE SplitLines(_, _)
SplitLines(chunks, cur) ==
    IF chunks = <<>> THEN (IF cur = <<>> THEN <<>> ELSE <<cur>>)
    ELSE IF Head(chunks).half = 2
         THEN <<Append(cur, Head(chunks))>> \o SplitLines(Tail(chunks), <<>>)
         ELSE SplitLines(Tail(chunks), Append(cur, Head(chunks)))

\* f.seek(pos); f.readlines(): a seek past the end is legal and reads nothing.
ReadLines(f, pos) ==
    IF pos >= Len(f) THEN <<>> ELSE SplitLines(SubSeq(f, pos + 1, Len(f)), <<>>)

\* f.tell() after readlines.
Tell(f, pos) == IF pos >= Len(f) THEN pos ELSE Len(f)

\* A piece of text is a whole line when it is exactly the two chunks of one line.
Complete(piece) ==
    /\ Len(piece) = 2
    /\ piece[1].half = 1 /\ piece[2].half = 2
    /\ piece[1].line = piece[2].line

\* parse_log_line: None for text json.loads rejects; a fragment of a line is
\* never valid JSON.
ParseLogLine(piece) ==
    IF Complete(piece) /\ piece[1].line.json /= "malformed"
    THEN piece[1].line
    ELSE Stamp(Malformed, 0)

\* "if not log": None and falsy JSON values.
NotLog(log) == log.json \in {"malformed", "falsy", "empty"}

\* A health-check test that knows only the nginx-health marker.
IsHealthCheckOneMarker(request) == request = "GET /nginx-health HTTP/1.1"

\* "'nginx-health' in request or 'healthz' in request"
IsHealthCheck(request) == request \in HealthRequests

\* Line 191: int() is called on every entry isdigit() accepts.
IntRaises(upstream_status) ==
    \E i \in DOMAIN upstream_status :
        /\ upstream_status[i].isdigit
        /\ upstream_status[i].int = Raises

\* Lines 188-192: the integer entries of upstream_status, any of them >= 500.
IsError(upstream_status) ==
    /\ upstream_status /= <<>>
    /\ \E i \in DOMAIN upstream_status :
          /\ upstream_status[i].isdigit
          /\ upstream_status[i].int >= ErrorStatus

\* Lines 194-199.
RequestInfo(log) ==
    [pool |-> log.pool, status |-> log.status,
     is_error |-> IsError(log.upstream_status), time |-> log.time]

----------------------------------------------------------------------------
(* The sliding window, the notifier and the two detectors *)

\* A full window that refuses the new record instead of evicting the oldest.
WindowAppendKeepsOldest(w, r) ==
    IF Len(w) >= WINDOW_SIZE THEN w ELSE Append(w, r)

\* deque(maxlen=WINDOW_SIZE).append
WindowAppend(w, r) ==
    IF WINDOW_SIZE = 0 THEN <<>>
    ELSE IF Len(w) >= WINDOW_SIZE THEN Append(Tail(w), r)
    ELSE Append(w, r)

HttpResults == {"200", "non200", "exception"}

\* A notifier whose maintenance mode silences every kind of alert.
SendSlackAlertSilencesAll(alert_type, http) ==
    IF ~SLACK_WEBHOOK_URL \/ MAINTENANCE_MODE
    THEN [type |-> alert_type, attempt |-> FALSE, delivered |-> FALSE]
    ELSE [type |-> alert_type, attempt |-> TRUE, delivered |-> (http = "200")]

\* send_slack_alert: the call as the notifier saw it.  http is what
\* requests.post would do if it is reached.
SendSlackAlert(alert_type, http) ==
    IF ~SLACK_WEBHOOK_URL
    THEN [type |-> alert_type, attempt |-> FALSE, delivered |-> FALSE]
    ELSE IF MAINTENANCE_MODE /\ alert_type = "failover"
    THEN [type |-> alert_type, attempt |-> FALSE, delivered |-> FALSE]
    ELSE [type |-> alert_type, attempt |-> TRUE, delivered |-> (http = "200")]

\* A cooldown test that lets an alert through at exactly the cooldown.
CooldownElapsedInclusive(t, last_alert) == t - last_alert >= ALERT_COOLDOWN_SEC

\* The cooldown test of lines 81 and 109.
CooldownElapsed(t, last_alert) == t - last_alert > ALERT_COOLDOWN_SEC

\* A check_failover that updates last_pool only when it alerts.
CheckFailoverTracksOnAlert(current_pool, t, http) ==
    IF last_pool = None
    THEN [last_pool |-> current_pool,
          last_failover_alert |-> last_failover_alert, calls |-> <<>>]
    ELSE IF current_pool /= last_pool /\ CooldownElapsed(t, last_failover_alert)
    THEN [last_pool |-> current_pool, last_failover_alert |-> t,
          calls |-> <<SendSlackAlert("failover", http)>>]
    ELSE [last_pool |-> last_pool,
          last_failover_alert |-> last_failover_alert, calls |-> <<>>]

\* A check_failover without the baseline case: the first pool is a change.
CheckFailoverNoBaseline(current_pool, t, http) ==
    IF current_pool /= last_pool /\ CooldownElapsed(t, last_failover_alert)
    THEN [last_pool |-> current_pool, last_failover_alert |-> t,
          calls |-> <<SendSlackAlert("failover", http)>>]
    ELSE [last_pool |-> current_pool,
          last_failover_alert |-> last_failover_alert, calls |-> <<>>]

\* A check_failover that does not compare the pool with last_pool.
CheckFailoverEveryRecord(current_pool, t, http) ==
    IF last_pool = None
    THEN [last_pool |-> current_pool,
          last_failover_alert |-> last_failover_alert, calls |-> <<>>]
    ELSE IF CooldownElapsed(t, last_failover_alert)
    THEN [last_pool |-> current_pool, last_failover_alert |-> t,
          calls |-> <<SendSlackAlert("failover", http)>>]
    ELSE [last_pool |-> current_pool,
          last_failover_alert |-> last_failover_alert, calls |-> <<>>]

\* A check_failover that starts the cooldown only when the alert was
\* delivered, so that a failed one is tried again at the next change.
CheckFailoverStampsOnDelivery(current_pool, t, http) ==
    IF last_pool = None
    THEN [last_pool |-> current_pool,
          last_failover_alert |-> last_failover_alert, calls |-> <<>>]
    ELSE IF current_pool /= last_pool /\ CooldownElapsed(t, last_failover_alert)
    THEN [last_pool |-> current_pool,
          last_failover_alert |->
              IF SendSlackAlert("failover", http).delivered
              THEN t ELSE last_failover_alert,
          calls |-> <<SendSlackAlert("failover", http)>>]
    ELSE [last_pool |-> current_pool,
          last_failover_alert |-> last_failover_alert, calls |-> <<>>]

\* check_failover(current_pool), reading the clock as t.
CheckFailover(current_pool, t, http) ==
    IF last_pool = None
    THEN [last_pool |-> current_pool,
          last_failover_alert |-> last_failover_alert, calls |-> <<>>]
    ELSE IF current_pool /= last_pool
    THEN IF CooldownElapsed(t, last_failover_alert)
         THEN [last_pool |-> current_pool, last_failover_alert |-> t,
               calls |-> <<SendSlackAlert("failover", http)>>]
         ELSE [last_pool |-> current_pool,
               last_failover_alert |-> last_failover_alert, calls |-> <<>>]
    ELSE [last_pool |-> last_pool,
          last_failover_alert |-> last_failover_alert, calls |-> <<>>]

\* A loop that hands every pool to check_failover, the empty one too.
FailoverCheckAnyPool(pool, t, http) == CheckFailover(pool, t, http)

\* Lines 203-204: "if pool: check_failover(pool)".
FailoverCheck(pool, t, http) ==
    IF pool /= ""
    THEN CheckFailover(pool, t, http)
    ELSE [last_pool |-> last_pool,
          last_failover_alert |-> last_failover_alert, calls |-> <<>>]

ErrorCount(w) == Cardinality({i \in DOMAIN w : w[i].is_error})

\* A threshold test that also fires when the rate equals the threshold.
RateExceededInclusive(w) == ErrorCount(w) * 100 >= ERROR_RATE_THRESHOLD * Len(w)

\* "error_rate > ERROR_RATE_THRESHOLD" with error_rate = count / total * 100
RateExceeded(w) == ErrorCount(w) * 100 > ERROR_RATE_THRESHOLD * Len(w)

\* A check_error_rate without the minimum number of requests.
CheckErrorRateNoMinimum(w, t, http) ==
    IF RateExceeded(w) /\ CooldownElapsed(t, last_error_rate_alert)
    THEN [last_error_rate_alert |-> t,
          calls |-> <<SendSlackAlert("error", http)>>]
    ELSE [last_error_rate_alert |-> last_error_rate_alert, calls |-> <<>>]

\* A check_error_rate that starts the cooldown only when the alert was
\* delivered.
CheckErrorRateStampsOnDelivery(w, t, http) ==
    IF Len(w) < MinRequests
    THEN [last_error_rate_alert |-> last_error_rate_alert, calls |-> <<>>]
    ELSE IF RateExceeded(w) /\ CooldownElapsed(t, last_error_rate_alert)
    THEN [last_error_rate_alert |->
              IF SendSlackAlert("error", http).delivered
              THEN t ELSE last_error_rate_alert,
          calls |-> <<SendSlackAlert("error", http)>>]
    ELSE [last_error_rate_alert |-> last_error_rate_alert, calls |-> <<>>]

\* A check_error_rate that tests the cooldown of the failover alert.
CheckErrorRateSharedCooldown(w, t, http) ==
    IF Len(w) < MinRequests
    THEN [last_error_rate_alert |-> last_error_rate_alert, calls |-> <<>>]
    ELSE IF RateExceeded(w) /\ CooldownElapsed(t, last_failover_alert)
    THEN [last_error_rate_alert |-> t,
          calls |-> <<SendSlackAlert("error", http)>>]
    ELSE [last_error_rate_alert |-> last_error_rate_alert, calls |-> <<>>]

\* check_error_rate() on window w, reading the clock as t.
CheckErrorRate(w, t, http) ==
    IF Len(w) < MinRequests
    THEN [last_error_rate_alert |-> last_error_rate_alert, calls |-> <<>>]
    ELSE IF RateExceeded(w) /\ CooldownElapsed(t, last_error_rate_alert)
    THEN [last_error_rate_alert |-> t,
          calls |-> <<SendSlackAlert("error", http)>>]
    ELSE [last_error_rate_alert |-> last_error_rate_alert, calls |-> <<>>]

----------------------------------------------------------------------------
(* The environment: the proxy writing the log, log rotation, the clock *)

Tick ==
    /\ now < MaxTime
    /\ now' = now + 1
    /\ UNCHANGED <<config, detect, last_position, lines, pc, file, written,
                   startMark, handed, arrived, trace, dispatched>>

\* Chunks of the file the watcher has not read yet.
Unread == IF Len(file) > last_position THEN Len(file) - last_position ELSE 0

\* The proxy appends one whole line; it has not written more than limit
\* lines, nor more than backlog lines the watcher has yet to read.
WriteLine(bodies, limit, backlog) ==
    /\ written < limit
    /\ Unread < 2 * backlog
    /\ ~MidLine(file)
    /\ \E b \in bodies :
          file' = file \o Chunks(Stamp(b, written + 1))
    /\ written' = written + 1
    /\ UNCHANGED <<config, detect, last_position, lines, pc, now,
                   startMark, handed, arrived, trace, dispatched>>

\* The proxy has written only the first part of a line so far.
WriteHead(bodies, limit, backlog) ==
    /\ written < limit
    /\ Unread < 2 * backlog
    /\ ~MidLine(file)
    /\ \E b \in bodies :
          file' = Append(file, Chunks(Stamp(b, written + 1))[1])
    /\ written' = written + 1
    /\ UNCHANGED <<config, detect, last_position, lines, pc, now,
                   startMark, handed, arrived, trace, dispatched>>

\* ... and now the rest of it.
WriteTail ==
    /\ MidLine(file)
    /\ file' = Append(file, [line |-> file[Len(file)].line, half |-> 2])
    /\ UNCHANGED <<config, detect, last_position, lines, pc, now, written,
                   startMark, handed, arrived, trace, dispatched>>

\* Log rotation: the file is truncated, or replaced by a new empty file.
Truncate ==
    /\ file /= <<>>
    /\ ~MidLine(file)
    /\ file' = <<>>
    /\ UNCHANGED <<config, detect, last_position, lines, pc, now, written,
                   startMark, handed, arrived, trace, dispatched>>

----------------------------------------------------------------------------
(* tail_log_file *)

Max(S) == IF S = {} THEN 0 ELSE CHOOSE x \in S : \A y \in S : y <= x

\* The complete lines of a batch, by their time stamp.
CompleteTimes(ls) == {ls[i][1].line.time : i \in {j \in DOMAIN ls : Complete(ls[j])}}

NoTrace == [op |-> "none", time |-> 0, before |-> None, calls |-> <<>>]

\* Lines 148-156: read and drop what is in the file, then start at offset 0.
SkipExisting ==
    /\ pc = "skip"
    /\ startMark' = Max(CompleteTimes(ReadLines(file, 0)))
    /\ last_position' = 0
    /\ pc' = "open"
    /\ UNCHANGED <<config, detect, lines, file, now, written, handed,
                   arrived, trace, dispatched>>

\* Lines 159-171: open, seek, readlines, tell and the first loop, which
\* parses every line of the batch and drops the result.
Poll ==
    /\ pc = "open"
    /\ lines' = ReadLines(file, last_position)
    /\ last_position' = Tell(file, last_position)
    /\ handed' = handed \cup CompleteTimes(ReadLines(file, last_position))
    /\ pc' = "loop"
    /\ trace' = [NoTrace EXCEPT !.op = "read"]
    /\ UNCHANGED <<config, detect, file, now, written, startMark, arrived,
                   dispatched>>

\* Lines 159, 212-214: open() raises; the error is printed and the cycle is
\* retried after a second.
PollError ==
    /\ pc = "open"
    /\ trace' = [NoTrace EXCEPT !.op = "ioerror"]
    /\ UNCHANGED <<config, detect, last_position, lines, pc, file, now,
                   written, startMark, handed, arrived, dispatched>>

\* Line 210: the batch is done.
Sleep ==
    /\ pc = "loop"
    /\ lines = <<>>
    /\ pc' = "open"
    /\ UNCHANGED <<config, detect, last_position, lines, file, now, written,
                   startMark, handed, arrived, trace, dispatched>>

PieceTime(piece) == IF Complete(piece) THEN piece[1].line.time ELSE 0

\* Lines 172-207: one iteration of the processing loop.  d is the time that
\* passes between the two readings of the clock; http1 and http2 are the
\* outcomes of the webhook calls, if they are made.
ProcessLine ==
    /\ pc = "loop"
    /\ lines /= <<>>
    /\ LET piece == Head(lines)
           log == ParseLogLine(piece)
           done(op, calls) == [op |-> op, time |-> PieceTime(piece),
                               before |-> last_pool, calls |-> calls]
       IN  IF NotLog(log)
           THEN \* line 174: continue
                /\ lines' = Tail(lines)
                /\ trace' = done("rejected", <<>>)
                /\ UNCHANGED <<detect, pc, now, arrived, dispatched>>
           ELSE IF log.json = "nondict"
           THEN \* line 178: log.get raises; lines 212-214 drop the batch
                /\ lines' = <<>>
                /\ pc' = "open"
                /\ trace' = done("exception", <<>>)
                /\ UNCHANGED <<detect, now, arrived, dispatched>>
           ELSE IF IsHealthCheck(log.request)
           THEN \* line 185: continue
                /\ lines' = Tail(lines)
                /\ trace' = done("health", <<>>)
                /\ UNCHANGED <<detect, pc, now, arrived, dispatched>>
           ELSE IF log.json = "badfield" \/ IntRaises(log.upstream_status)
           THEN \* line 191: a number has no .split, int() raises; lines 212-214
                /\ lines' = <<>>
                /\ pc' = "open"
                /\ trace' = done("exception", <<>>)
                /\ UNCHANGED <<detect, now, arrived, dispatched>>
           ELSE \E d \in 0..1, http1 \in HttpResults, http2 \in HttpResults :
                LET request_info == RequestInfo(log)
                    w == WindowAppend(request_window, request_info)
                    fo == FailoverCheck(log.pool, now, http1)
                    t2 == IF now + d <= MaxTime THEN now + d ELSE now
                    er == CheckErrorRate(w, t2, http2)
                IN  /\ request_window' = w
                    /\ arrived' = Append(arrived, request_info)
                    /\ last_pool' = fo.last_pool
                    /\ last_failover_alert' = fo.last_failover_alert
                    /\ last_error_rate_alert' = er.last_error_rate_alert
                    /\ now' = t2
                    /\ lines' = Tail(lines)
                    /\ trace' = done("appended", fo.calls \o er.calls)
                    /\ dispatched' =
                         [failover |-> IF fo.calls /= <<>> THEN now
                                       ELSE dispatched.failover,
                          error |-> IF er.calls /= <<>> THEN t2
                                    ELSE dispatched.error]
                    /\ UNCHANGED pc
    /\ UNCHANGED <<config, last_position, file, written, startMark, handed>>

----------------------------------------------------------------------------
(* The tailing model: lines present at startup, rotation, partly written *)
(* lines, lines that are not JSON objects, I/O errors                      *)

TailBodies == {Ok("blue"), Err("green"), NonDict}

\* The files the watcher can find at startup: up to n whole lines.
StartFiles(bodies, n) ==
    UNION {{FileOf([i \in 1..k |-> Stamp(f[i], i)]) : f \in [1..k -> bodies]} : k \in 0..n}

InitWith(bodies, n, hooks, modes, sizes) ==
    /\ SLACK_WEBHOOK_URL \in hooks
    /\ MAINTENANCE_MODE \in modes
    /\ WINDOW_SIZE \in sizes
    /\ ERROR_RATE_THRESHOLD = DefaultThreshold
    /\ last_pool = None
    /\ request_window = <<>>
    /\ last_failover_alert = 0
    /\ last_error_rate_alert = 0
    /\ last_position = 0
    /\ lines = <<>>
    /\ pc = "skip"
    /\ file \in StartFiles(bodies, n)
    /\ written = Len(file) \div 2
    /\ now = StartTime
    /\ startMark = 0
    /\ handed = {}
    /\ arrived = <<>>
    /\ trace = NoTrace
    /\ dispatched = [failover |-> 0, error |-> 0]

Init == InitWith(TailBodies, MaxPre, {TRUE}, {FALSE}, {MaxWindow})

Next ==
    \/ WriteLine(TailBodies, MaxWrites, MaxWrites)
    \/ WriteHead(TailBodies, MaxWrites, MaxWrites)
    \/ WriteTail
    \/ Truncate
    \/ SkipExisting
    \/ Poll
    \/ PollError
    \/ Sleep
    \/ ProcessLine

Spec == Init /\ [][Next]_vars

----------------------------------------------------------------------------
(* The detection model: the clock, every configuration, health checks and  *)
(* records without a pool; the proxy writes whole lines and nothing is     *)
(* rotated                                                                 *)

DetectBodies == {Ok("blue"), Err("green"), Ok(""), Health("green")}

DetectInit == InitWith(DetectBodies, 0, BOOLEAN, BOOLEAN, {MaxWindow})

DetectNext ==
    \/ Tick
    \/ WriteLine(DetectBodies, DetectWrites, MaxBacklog)
    \/ SkipExisting
    \/ Poll
    \/ Sleep
    \/ ProcessLine

DetectSpec == DetectInit /\ [][DetectNext]_vars

----------------------------------------------------------------------------
(* The fair tailing model: the loop of tail_log_file keeps running (it     *)
(* never blocks, and every sleep ends); the proxy writes whole lines       *)

LiveBodies == {Ok("blue"), NonDict}

LiveInit == InitWith(LiveBodies, MaxPre, {TRUE}, {FALSE}, {MaxWindow})

LiveNext ==
    \/ WriteLine(LiveBodies, MaxPre + LiveWrites, MaxPre + LiveWrites)
    \/ Truncate
    \/ SkipExisting
    \/ Poll
    \/ PollError
    \/ Sleep
    \/ ProcessLine

LiveSpec ==
    /\ LiveInit
    /\ [][LiveNext]_vars
    /\ WF_vars(SkipExisting)
    /\ WF_vars(Poll)
    /\ WF_vars(Sleep)
    /\ WF_vars(ProcessLine)

----------------------------------------------------------------------------
(* The error-rate model.  check_error_rate does nothing before the window  *)
(* holds MinRequests records, so this model starts where the watcher,      *)
(* started on an empty file with WINDOW_SIZE = MinRequests, has read and   *)
(* processed MinRequests - 1 lines of pool blue, the first k of them with  *)
(* a 5xx upstream status: no alert has been raised yet.                    *)

RateBodies == {Ok("blue"), Err("green")}

Warmup(k) ==
    [i \in 1..(MinRequests - 1) |->
        Stamp(IF i <= k THEN Err("blue") ELSE Ok("blue"), i)]

Records(ls) == [i \in DOMAIN ls |-> RequestInfo(ls[i])]

RateInitWith(hooks, modes, thresholds) ==
    /\ SLACK_WEBHOOK_URL \in hooks
    /\ MAINTENANCE_MODE \in modes
    /\ WINDOW_SIZE = MinRequests
    /\ ERROR_RATE_THRESHOLD \in thresholds
    /\ \E k \in 0..MaxPreErrors :
          /\ file = FileOf(Warmup(k))
          /\ request_window = Records(Warmup(k))
          /\ arrived = Records(Warmup(k))
    /\ last_pool = "blue"
    /\ last_failover_alert = 0
    /\ last_error_rate_alert = 0
    /\ last_position = Len(file)
    /\ lines = <<>>
    /\ pc = "open"
    /\ written = MinRequests - 1
    /\ now = StartTime
    /\ startMark = 0
    /\ handed = 1..(MinRequests - 1)
    /\ trace = [op |-> "appended", time |-> MinRequests - 1,
                before |-> "blue", calls |-> <<>>]
    /\ dispatched = [failover |-> 0, error |-> 0]

RateInit == RateInitWith(BOOLEAN, BOOLEAN, {DefaultThreshold})

RateNext ==
    \/ Tick
    \/ WriteLine(RateBodies, MinRequests - 1 + RateWrites, MaxBacklog)
    \/ Poll
    \/ Sleep
    \/ ProcessLine

RateSpec == RateInit /\ [][RateNext]_vars

----------------------------------------------------------------------------
(* The threshold model: the error-rate model with a webhook, no            *)
(* maintenance mode, and a threshold that is either the default or exactly *)
(* the rate of one error in ten requests                                   *)

ThresholdInit ==
    RateInitWith({TRUE}, {FALSE}, {DefaultThreshold, EdgeThreshold})

ThresholdSpec == ThresholdInit /\ [][RateNext]_vars

-----
(* Claims about the line source *)

\* The complete lines now in the file, by their time stamp.
InFile == CompleteTimes(ReadLines(file, 0))

\* C1: no line that was in the file when tailing began is ever handed to
\* the parser, processed by the loop or held in the sliding window.
C1_SkipsExistingLines ==
    /\ \A t \in handed : t > startMark
    /\ \A i \in DOMAIN request_window : request_window[i].time > startMark
    /\ (trace.op \in {"appended", "health", "exception"}) => trace.time > startMark

\* C2: a poll that finds the file shorter than the stored offset reads from
\* offset 0: it returns every line of the new file and leaves the offset
\* at the end of it.
C2_TruncationResetsOffset ==
    [][(pc = "open" /\ pc' = "loop" /\ Len(file) < last_position)
         => (lines' = ReadLines(file, 0) /\ last_position' = Len(file))]_vars

\* C3: under fair polling, a complete line that was appended after tailing
\* began and stays in the file is eventually handed to the parser.
C3_EveryLineEventuallyParsed ==
    \A t \in 1..(MaxPre + LiveWrites) :
        <>[](pc /= "skip" /\ t > startMark /\ t \in InFile) => <>(t \in handed)

----------------------------------------------------------------------------
(* Claims about the sliding window and the detectors *)

LastN(seq, n) ==
    IF Len(seq) <= n THEN seq ELSE SubSeq(seq, Len(seq) - n + 1, Len(seq))

\* The loop takes the first line of the batch and goes on to the next.
Consumes == pc = "loop" /\ lines /= <<>> /\ lines' = Tail(lines)

\* The line the loop is about to take, as written by the proxy.
Current == Head(lines)[1].line

\* The line the loop is about to take becomes a request record.
IsRecord ==
    /\ Complete(Head(lines))
    /\ Current.json = "object"
    /\ Current.request \notin HealthRequests

\* The line the loop is about to take is a health check.
IsHealth ==
    /\ Complete(Head(lines))
    /\ Current.json \in {"object", "badfield"}
    /\ Current.request \in HealthRequests

Calls(tr, type) == Cardinality({i \in DOMAIN tr.calls : tr.calls[i].type = type})

Attempts(tr, type) ==
    Cardinality({i \in DOMAIN tr.calls :
                    tr.calls[i].type = type /\ tr.calls[i].attempt})

\* C4: the window never holds more than WINDOW_SIZE records, and it holds
\* the last WINDOW_SIZE records appended (all of them while there are
\* fewer), in the order they arrived.
C4_WindowHoldsLastRecords ==
    /\ Len(request_window) <= WINDOW_SIZE
    /\ request_window = LastN(arrived, WINDOW_SIZE)

C4_Witness ==
    /\ Len(arrived) > WINDOW_SIZE
    /\ Len(request_window) = WINDOW_SIZE
    /\ request_window[1] /= arrived[1]

\* The record a step appends changes the pool that is tracked.
PoolChanges ==
    /\ IsRecord
    /\ last_pool /= None
    /\ Current.pool \notin {"", last_pool}

\* The record a step appends leaves the window over the error threshold.
RateBreached ==
    /\ IsRecord
    /\ Len(request_window') >= MinRequests
    /\ ErrorCount(request_window') * 100 > ERROR_RATE_THRESHOLD * Len(request_window')

\* C5: a qualifying record calls the notifier for its kind exactly when
\* more than ALERT_COOLDOWN_SEC seconds have passed since the notifier was
\* last called for that kind, and not otherwise: a second condition within
\* the cooldown is withheld, the first one after it is dispatched.
C5_CooldownGate ==
    [][Consumes =>
         /\ Calls(trace', "failover") =
              (IF PoolChanges /\ now - dispatched.failover > ALERT_COOLDOWN_SEC
               THEN 1 ELSE 0)
         /\ Calls(trace', "error") =
              (IF RateBreached /\ now' - dispatched.error > ALERT_COOLDOWN_SEC
               THEN 1 ELSE 0)]_vars

\* The number of pool changes in a sequence of records.
Changes(seq) ==
    Cardinality({i \in 1..(Len(seq) - 1) : seq[i].pool /= seq[i + 1].pool})

\* Three pool changes in a row, the first by an error record that has kept
\* the window over the threshold since: in both kinds the first was dispatched at StartTime, the second
\* was withheld inside the cooldown and the third, after the cooldown, was
\* dispatched again by the record just processed.
C5_Witness ==
    /\ trace.op = "appended"
    /\ Len(arrived) = MinRequests + 2
    /\ Changes(arrived) = 3
    /\ arrived[MinRequests].is_error
    /\ Calls(trace, "failover") = 1
    /\ Calls(trace, "error") = 1
    /\ last_failover_alert > StartTime + ALERT_COOLDOWN_SEC
    /\ last_error_rate_alert > StartTime + ALERT_COOLDOWN_SEC

\* C6: after a record with a non-empty pool is processed, last_pool is
\* that record's pool, whether or not a failover notification went out.
C6_PoolTrackedUnconditionally ==
    [][(Consumes /\ IsRecord /\ Current.pool /= "")
         => last_pool' = Current.pool]_vars

\* A pool change whose notification the cooldown withheld.
C6_Witness ==
    /\ trace.op = "appended"
    /\ trace.before \notin {None, last_pool}
    /\ last_pool /= ""
    /\ trace.calls = <<>>
    /\ now - last_failover_alert <= ALERT_COOLDOWN_SEC

\* C7: the first record with a non-empty pool becomes the baseline and
\* raises no failover alert: no notifier call, last_failover_alert
\* unchanged.
C7_FirstPoolIsBaseline ==
    [][(Consumes /\ IsRecord /\ Current.pool /= "" /\ last_pool = None)
         => /\ last_pool' = Current.pool
            /\ Calls(trace', "failover") = 0
            /\ last_failover_alert' = last_failover_alert]_vars

C7_Witness ==
    /\ trace.op = "appended"
    /\ trace.before = None
    /\ last_pool \in {"blue", "green"}

\* C8: once a pool is tracked, a step calls the notifier for a failover
\* once if it processes a record whose non-empty pool differs from
\* last_pool and the failover cooldown has elapsed, and not at all
\* otherwise.
C8_OneAlertPerPoolChange ==
    [][(Consumes /\ last_pool /= None)
         => Calls(trace', "failover") =
              (IF /\ IsRecord
                  /\ Current.pool /= ""
                  /\ Current.pool /= last_pool
                  /\ now - last_failover_alert > ALERT_COOLDOWN_SEC
               THEN 1 ELSE 0)]_vars

\* A record of the tracked pool raised nothing, and the next record, from
\* another pool, raised one failover alert.
C8_Witness ==
    /\ trace.op = "appended"
    /\ trace.before \notin {None, last_pool}
    /\ Calls(trace, "failover") = 1
    /\ Len(arrived) >= 3
    /\ arrived[Len(arrived) - 1].pool = trace.before
    /\ arrived[Len(arrived) - 2].pool = trace.before
    /\ dispatched.failover = last_failover_alert

\* C9: in maintenance mode with a webhook configured, no step makes an HTTP
\* call for a failover alert, and a step whose record leaves the error rate
\* over the threshold, the error-rate cooldown elapsed, makes one for the
\* error-rate alert, also when the same record changes the pool.
C9_MaintenanceSuppressesFailoverOnly ==
    [][(Consumes /\ MAINTENANCE_MODE /\ SLACK_WEBHOOK_URL)
         => /\ Attempts(trace', "failover") = 0
            /\ (RateBreached /\ now' - last_error_rate_alert > ALERT_COOLDOWN_SEC)
                 => Attempts(trace', "error") = 1]_vars

\* One record changed the pool and breached the error rate: the notifier
\* was called for both, and only the error-rate alert went to the webhook.
C9_Witness ==
    /\ MAINTENANCE_MODE /\ SLACK_WEBHOOK_URL
    /\ trace.op = "appended"
    /\ trace.before \notin {None, last_pool}
    /\ Calls(trace, "failover") = 1
    /\ Attempts(trace, "failover") = 0
    /\ Attempts(trace, "error") = 1

\* C10: a health check changes nothing: the window, last_pool and both
\* cooldown timestamps stay as they are and the notifier is not called.
C10_HealthCheckChangesNothing ==
    [][(pc = "loop" /\ lines /= <<>> /\ IsHealth /\ lines' /= lines)
         => /\ UNCHANGED <<request_window, last_pool, last_failover_alert,
                           last_error_rate_alert, arrived, dispatched>>
            /\ trace'.calls = <<>>]_vars

\* A health check served by another pool than the tracked one, with a 5xx
\* upstream status, was skipped.
C10_Witness ==
    /\ trace.op = "health"
    /\ last_pool = "blue"
    /\ Len(request_window) < WINDOW_SIZE

----------------------------------------------------------------------------
(* The upstream-status model: objects whose upstream_status field takes     *)
(* every shape of entry list                                                *)

StatusFields ==
    {<<>>, <<Digits(200)>>, <<Digits(502)>>, <<Digits(200), Digits(502)>>,
     <<NotDigits>>, <<NotDigits, Digits(502)>>, <<Digits(200), NotDigits>>,
     <<Superscript>>}

FieldBodies == {Body("object", "blue", Request, f, 200) : f \in StatusFields}

FieldInit == InitWith(FieldBodies, 0, {TRUE}, {FALSE}, {MaxWindow})

FieldNext ==
    \/ WriteLine(FieldBodies, FieldWrites, MaxBacklog)
    \/ SkipExisting
    \/ Poll
    \/ Sleep
    \/ ProcessLine

FieldSpec == FieldInit /\ [][FieldNext]_vars

----------------------------------------------------------------------------
(* The JSON-object model: objects with and without fields, health checks   *)

ObjectBodies == {Ok("blue"), Err("green"), NoFields, EmptyObject, Health("green")}

ObjectInit == InitWith(ObjectBodies, 0, {TRUE}, {FALSE}, {MaxWindow})

ObjectNext ==
    \/ WriteLine(ObjectBodies, ObjectWrites, MaxBacklog)
    \/ SkipExisting
    \/ Poll
    \/ Sleep
    \/ ProcessLine

ObjectSpec == ObjectInit /\ [][ObjectNext]_vars

----------------------------------------------------------------------------
(* Claims about the error-rate detector, the cooldowns and the notifier *)

\* C11: while the window holds fewer than MinRequests records, appending a
\* record raises no error-rate alert and leaves last_error_rate_alert as
\* it is, however many of the records are errors.
C11_NoRateAlertBelowMinimum ==
    [][(Consumes /\ IsRecord /\ Len(request_window') < MinRequests)
         => /\ Calls(trace', "error") = 0
            /\ last_error_rate_alert' = last_error_rate_alert]_vars

\* A full window of error records only, and no error-rate alert.
C11_Witness ==
    /\ trace.op = "appended"
    /\ Len(request_window) = WINDOW_SIZE
    /\ Len(request_window) < MinRequests
    /\ \A i \in DOMAIN request_window : request_window[i].is_error
    /\ Calls(trace, "error") = 0
    /\ last_error_rate_alert = 0

\* C18: a record without a pool is ignored by failover detection: it
\* leaves last_pool and last_failover_alert as they are and raises no
\* failover alert, also before the first pool is seen.
C18_EmptyPoolIgnored ==
    [][(Consumes /\ IsRecord /\ Current.pool = "")
         => /\ last_pool' = last_pool
            /\ last_failover_alert' = last_failover_alert
            /\ Calls(trace', "failover") = 0]_vars

\* A record without a pool was appended before any pool was seen.
C18_Witness ==
    /\ trace.op = "appended"
    /\ arrived /= <<>>
    /\ arrived[Len(arrived)].pool = ""
    /\ trace.before = None
    /\ last_pool = None

\* C12: once the window holds MinRequests records, appending a record
\* calls the notifier for an error-rate alert exactly when the share of
\* error records now in the window is strictly over ERROR_RATE_THRESHOLD
\* percent and the error-rate cooldown has elapsed; ten records with one
\* error and the default threshold raise it.
C12_RateAlertIffOverThreshold ==
    [][(Consumes /\ IsRecord /\ Len(request_window') >= MinRequests)
         => LET total == Len(request_window')
                errors == Cardinality({i \in 1..total : request_window'[i].is_error})
                elapsed == now' - last_error_rate_alert > ALERT_COOLDOWN_SEC
            IN  /\ Calls(trace', "error") =
                     (IF errors * 100 > ERROR_RATE_THRESHOLD * total /\ elapsed
                      THEN 1 ELSE 0)
                /\ (/\ total = 10
                    /\ errors = 1
                    /\ ERROR_RATE_THRESHOLD = DefaultThreshold
                    /\ elapsed) => Calls(trace', "error") = 1]_vars

\* Ten records, one of them an error, the default threshold: alerted.
C12_Witness ==
    /\ trace.op = "appended"
    /\ Len(request_window) = 10
    /\ ErrorCount(request_window) = 1
    /\ ERROR_RATE_THRESHOLD = DefaultThreshold
    /\ Calls(trace, "error") = 1

\* Ten records, one of them an error, a threshold of ten percent: the rate
\* does not exceed it, and nothing is alerted.
C12_AtThreshold ==
    /\ trace.op = "appended"
    /\ Len(request_window) = 10
    /\ ErrorCount(request_window) = 1
    /\ ERROR_RATE_THRESHOLD = EdgeThreshold
    /\ Calls(trace, "error") = 0
    /\ last_error_rate_alert = 0

\* The calls of one kind that the last iteration made and that went to
\* the webhook without being delivered.
Failed(tr, type) ==
    Cardinality({i \in DOMAIN tr.calls :
                    /\ tr.calls[i].type = type
                    /\ tr.calls[i].attempt
                    /\ ~tr.calls[i].delivered})

\* C13: whenever the cooldown gate of a kind lets an alert through, the
\* notifier is called and the timestamp of that kind is set to the time
\* read, whatever the notifier returns.
C13_CooldownStartsOnAttempt ==
    [][(Consumes /\ IsRecord)
         => /\ (PoolChanges /\ now - last_failover_alert > ALERT_COOLDOWN_SEC)
                 => /\ Calls(trace', "failover") = 1
                    /\ last_failover_alert' = now
            /\ (RateBreached /\ now' - last_error_rate_alert > ALERT_COOLDOWN_SEC)
                 => /\ Calls(trace', "error") = 1
                    /\ last_error_rate_alert' = now']_vars

\* One record raised both alerts in maintenance mode: the failover alert
\* was suppressed, the error-rate alert failed at the webhook, and both
\* timestamps were set.
C13_Witness ==
    /\ MAINTENANCE_MODE /\ SLACK_WEBHOOK_URL
    /\ trace.op = "appended"
    /\ Calls(trace, "failover") = 1 /\ Attempts(trace, "failover") = 0
    /\ Failed(trace, "error") = 1
    /\ last_failover_alert >= StartTime
    /\ last_error_rate_alert = now

\* C14: each timestamp changes only through the gate of its own kind:
\* last_failover_alert by a pool change outside the failover cooldown,
\* last_error_rate_alert by a breach outside the error-rate cooldown.
C14_CooldownsIndependent ==
    [][Consumes
         => /\ last_failover_alert' =
                 (IF PoolChanges /\ now - last_failover_alert > ALERT_COOLDOWN_SEC
                  THEN now ELSE last_failover_alert)
            /\ last_error_rate_alert' =
                 (IF RateBreached /\ now' - last_error_rate_alert > ALERT_COOLDOWN_SEC
                  THEN now' ELSE last_error_rate_alert)]_vars

\* A failover alert was raised while the window was over the threshold
\* inside the error-rate cooldown: the error-rate alert stayed withheld
\* and its timestamp stayed as it was.
C14_Witness ==
    /\ trace.op = "appended"
    /\ Calls(trace, "failover") = 1
    /\ Calls(trace, "error") = 0
    /\ RateExceeded(request_window)
    /\ last_error_rate_alert >= StartTime
    /\ last_error_rate_alert < last_failover_alert

\* C16: the state after a record does not depend on what the webhook
\* did: the window, last_pool and both timestamps are what they would be
\* had every delivery succeeded, and the loop goes on with the next line.
C16_DeliveryDoesNotInfluenceDetection ==
    [][(Consumes /\ IsRecord)
         => LET fo == FailoverCheck(Current.pool, now, "200")
                er == CheckErrorRate(request_window', now', "200")
            IN  /\ request_window' =
                     WindowAppend(request_window, RequestInfo(Current))
                /\ last_pool' = fo.last_pool
                /\ last_failover_alert' = fo.last_failover_alert
                /\ last_error_rate_alert' = er.last_error_rate_alert
                /\ Len(trace'.calls) = Len(fo.calls) + Len(er.calls)
                /\ pc' = "loop"]_vars

\* Both alerts of one record failed at the webhook; the pool is tracked
\* and both cooldowns run.
C16_Witness ==
    /\ trace.op = "appended"
    /\ Failed(trace, "failover") = 1
    /\ Failed(trace, "error") = 1
    /\ last_pool /= trace.before
    /\ last_failover_alert = dispatched.failover
    /\ last_error_rate_alert = dispatched.error
    /\ pc = "loop"

-----------------------------------------------------------------------------
(* Claims about what the loop does with lines that are not records *)

\* C15: a line that cannot be turned into a record is discarded alone:
\* the loop leaves the window, last_pool and both timestamps as they are
\* and goes on with the other lines of the batch.
C15_LineFailureContained ==
    [][(pc = "loop" /\ lines /= <<>> /\ lines' /= lines
          /\ ~IsRecord /\ ~IsHealth)
         => /\ UNCHANGED detect
            /\ lines' = Tail(lines)]_vars

\* C17: every piece a poll hands to the loop is a whole line.
C17_OnlyCompleteLinesHanded ==
    \A i \in DOMAIN lines : Complete(lines[i])

\* The loop takes a whole line that decodes as a JSON object and is not a
\* health check.
TakesObject ==
    /\ pc = "loop" /\ lines /= <<>> /\ lines' /= lines
    /\ Complete(Head(lines))
    /\ Current.json \in {"object", "empty"}
    /\ Current.request \notin HealthRequests

\* C19: a record is an error exactly when one of the integer entries of
\* its upstream_status is >= 500; entries that are not integers are
\* ignored and the record is appended all the same.
C19_ErrorIffServerErrorCode ==
    [][TakesObject
         => /\ Len(arrived') = Len(arrived) + 1
            /\ arrived'[Len(arrived')].is_error
                 = (\E i \in DOMAIN Current.upstream_status :
                        Current.upstream_status[i].int >= 500)]_vars

\* C20: every JSON object that is not a health check, the empty object
\* included, is appended to the window once, its absent fields defaulted.
C20_EveryObjectAppendedOnce ==
    [][TakesObject
         => /\ lines' = Tail(lines)
            /\ Len(arrived') = Len(arrived) + 1
            /\ request_window' = LastN(arrived', WINDOW_SIZE)
            /\ arrived'[Len(arrived')].pool = Current.pool
            /\ arrived'[Len(arrived')].status = Current.status
            /\ arrived'[Len(arrived')].time = Current.time
            /\ (Current.upstream_status = <<>>
                  => ~arrived'[Len(arrived')].is_error)
            /\ \A i \in DOMAIN arrived : arrived[i].time /= Current.time]_vars

====
